---- MODULE Spec2Model ----
(***************************************************************************)
(* Jiraiya story service: POST /api/v1/generate.                           *)
(*                                                                         *)
(* A request is authenticated (verify_api_key), validated                  *)
(* (StoryGenerationRequest), and handed to StoryGeneratorService, which    *)
(* either calls the language model under a tenacity retry policy or falls  *)
(* back to the mock generator.                                             *)
(*                                                                         *)
(* Python str values are sequences of one-character strings, so that       *)
(* strip, split, replace, lower and capitalize are computed character by   *)
(* character as Python computes them.                                      *)
(***************************************************************************)
EXTENDS Integers, Sequences, FiniteSets, TLC

VARIABLES
    OPENAI_API_KEY,   \* settings.OPENAI_API_KEY: TRUE when a credential is configured
    API_KEY,          \* settings.API_KEY, or NoKey
    llm,              \* StoryGeneratorService.llm, fixed by __init__
    pc,               \* position of the request in its handling
    header,           \* the X-API-Key header of the request, or NoKey
    payload,          \* the JSON body of the request
    request,          \* the validated StoryGenerationRequest, once there is one
    errors,           \* the validation errors reported (a set of [loc, type])
    attempt_number,   \* tenacity's retry_state.attempt_number
    invocations,      \* number of chain.ainvoke calls made for the request
    responses,        \* what the upstream answered, one entry per call
    sleeps,           \* the waits tenacity slept between attempts
    raised,           \* the exception that ended the handling, or NoError
    story,            \* the StoryGenerationResponse returned, or NoStory
    status            \* the HTTP status of the response, 0 while there is none

vars == <<OPENAI_API_KEY, API_KEY, llm, pc, header, payload, request, errors,
          attempt_number, invocations, responses, sleeps, raised, story, status>>

(***************************************************************************)
(* Python str operations                                                   *)
(***************************************************************************)
Lowers == <<"a","b","c","d","e","f","g","h","i","j","k","l","m",
            "n","o","p","q","r","s","t","u","v","w","x","y","z">>
Uppers == <<"A","B","C","D","E","F","G","H","I","J","K","L","M",
            "N","O","P","Q","R","S","T","U","V","W","X","Y","Z">>

ToLower(c) ==
    IF \E i \in DOMAIN Uppers : Uppers[i] = c
    THEN Lowers[CHOOSE i \in DOMAIN Uppers : Uppers[i] = c]
    ELSE c

ToUpper(c) ==
    IF \E i \in DOMAIN Lowers : Lowers[i] = c
    THEN Uppers[CHOOSE i \in DOMAIN Lowers : Lowers[i] = c]
    ELSE c

\* str.lower()
Lower(s) == [i \in 1..Len(s) |-> ToLower(s[i])]

\* str.capitalize(): first character upper-cased, the rest lower-cased
Capitalize(s) == [i \in 1..Len(s) |-> IF i = 1 THEN ToUpper(s[i]) ELSE ToLower(s[i])]

\* str.isspace() of one character
IsSpace(c) == c \in {" ", "\t", "\n", "\r"}

RECURSIVE LStrip(_)
LStrip(s) == IF s # <<>> /\ IsSpace(Head(s)) THEN LStrip(Tail(s)) ELSE s

RECURSIVE RStrip(_)
RStrip(s) ==
    IF s # <<>> /\ IsSpace(s[Len(s)]) THEN RStrip(SubSeq(s, 1, Len(s) - 1)) ELSE s

\* str.strip()
Strip(s) == RStrip(LStrip(s))

\* s.startswith(p)
StartsWith(s, p) == Len(s) >= Len(p) /\ SubSeq(s, 1, Len(p)) = p

\* s.replace(old, ""): every non-overlapping occurrence, scanning from the left
RECURSIVE Remove(_, _)
Remove(s, old) ==
    IF Len(s) < Len(old) THEN s
    ELSE IF StartsWith(s, old) THEN Remove(SubSeq(s, Len(old) + 1, Len(s)), old)
    ELSE <<Head(s)>> \o Remove(Tail(s), old)

\* s.split("\n", 1): one part when s has no newline, else the text before the
\* first newline and the text after it
SplitFirstNewline(s) ==
    IF \E i \in 1..Len(s) : s[i] = "\n"
    THEN LET n == CHOOSE i \in 1..Len(s) : s[i] = "\n" /\ \A j \in 1..(i - 1) : s[j] # "\n"
         IN  <<SubSeq(s, 1, n - 1), SubSeq(s, n + 1, Len(s))>>
    ELSE <<s>>

\* sub in s
Contains(s, sub) ==
    \E i \in 1..(Len(s) - Len(sub) + 1) : SubSeq(s, i, i + Len(sub) - 1) = sub

Digit == <<"0","1","2","3","4","5","6","7","8","9">>

\* str(n) of a non-negative int
RECURSIVE IntToStr(_)
IntToStr(n) ==
    IF n < 10 THEN <<Digit[n + 1]>> ELSE IntToStr(n \div 10) \o <<Digit[(n % 10) + 1]>>

\* n copies of the one-element list <<x>>
Repeat(x, n) == [i \in 1..n |-> x]

\* the lists enumerating a set without repetition: list(set(...)) leaves the
\* order to the hash seed of the interpreter
ListsOf(S) ==
    {l \in [1..Cardinality(S) -> S] : \A i, j \in 1..Cardinality(S) : l[i] = l[j] => i = j}

(***************************************************************************)
(* Python None                                                             *)
(***************************************************************************)
NoneInt == 0 - 1              \* None in an Optional[int] field
NoneStr == <<"<None>">>       \* None in an Optional[str] field
NoKey == "<None>"             \* None for a credential or a header
NoError == [type |-> "<None>", detail |-> "<None>"]
NoStory == [title |-> <<"<None>">>, content |-> <<"<None>">>, keywords_used |-> <<>>]
NoRequest == [keywords |-> <<>>, genre |-> <<>>, tone |-> NoneStr,
              max_length |-> NoneInt, min_length |-> NoneInt]

(***************************************************************************)
(* StoryGenerationRequest (schemas/story.py)                               *)
(***************************************************************************)
KeywordsMinItems == 1
KeywordsMaxItems == 10
GenreMinLength == 3
GenreMaxLength == 50
MaxLengthDefault == 500
MaxLengthGe == 100
MaxLengthLe == 2000
MinLengthGe == 50
MinLengthLe == 1000

neutral == <<"n","e","u","t","r","a","l">>
humorous == <<"h","u","m","o","r","o","u","s">>
dark == <<"d","a","r","k">>
epic == <<"e","p","i","c">>
romantic == <<"r","o","m","a","n","t","i","c">>
mysterious == <<"m","y","s","t","e","r","i","o","u","s">>
dramatic == <<"d","r","a","m","a","t","i","c">>

valid_tones == {neutral, humorous, dark, epic, romantic, mysterious, dramatic}

\* validate_keywords with the blank entries dropped but the kept ones not stripped
validate_keywords_unstripped(v) ==
    LET keywords == {v[i] : i \in {j \in DOMAIN v : Strip(v[j]) # <<>>}}
    IN  [raises |-> keywords = {}, returns |-> ListsOf(keywords)]

\* validate_keywords: raises ValueError when nothing is left after dropping the
\* blank entries; otherwise returns list(set(...)) of the stripped entries,
\* in any order
validate_keywords(v) ==
    LET keywords == {Strip(v[i]) : i \in {j \in DOMAIN v : Strip(v[j]) # <<>>}}
    IN  [raises |-> keywords = {}, returns |-> ListsOf(keywords)]

\* validate_tone returning v as given
validate_tone_unlowered(v) ==
    [raises |-> Lower(v) \notin valid_tones, returns |-> v]

\* validate_tone: raises ValueError unless v.lower() is a valid tone; returns v.lower()
validate_tone(v) ==
    [raises |-> Lower(v) \notin valid_tones, returns |-> Lower(v)]

\* validate_length_range comparing with >= in place of >
validate_length_range_ge(v, data) ==
    IF v # NoneInt /\ v # 0 /\ "max_length" \in DOMAIN data
    THEN IF data.max_length = NoneInt THEN "TypeError"
         ELSE IF v >= data.max_length THEN "ValueError"
         ELSE "ok"
    ELSE "ok"

\* validate_length_range(v, info): data holds the fields validated so far that
\* passed; "v > None" is a TypeError
validate_length_range(v, data) ==
    IF v # NoneInt /\ v # 0 /\ "max_length" \in DOMAIN data
    THEN IF data.max_length = NoneInt THEN "TypeError"
         ELSE IF v > data.max_length THEN "ValueError"
         ELSE "ok"
    ELSE "ok"

\* keywords: List[str] = Field(..., min_length=1, max_length=10), then the validator
FieldKeywords(p) ==
    IF "keywords" \notin DOMAIN p THEN "missing"
    ELSE IF Len(p.keywords) < KeywordsMinItems THEN "too_short"
    ELSE IF Len(p.keywords) > KeywordsMaxItems THEN "too_long"
    ELSE IF validate_keywords(p.keywords).raises THEN "value_error"
    ELSE "ok"

\* genre: str = Field(..., min_length=3, max_length=50)
FieldGenre(p) ==
    IF "genre" \notin DOMAIN p THEN "missing"
    ELSE IF Len(p.genre) < GenreMinLength THEN "string_too_short"
    ELSE IF Len(p.genre) > GenreMaxLength THEN "string_too_long"
    ELSE "ok"

\* tone: Optional[str] = Field("neutral"); the validator runs on a given value
\* only, and None has no lower()
FieldTone(p) ==
    IF "tone" \notin DOMAIN p THEN "ok"
    ELSE IF p.tone = NoneStr THEN "AttributeError"
    ELSE IF validate_tone(p.tone).raises THEN "value_error"
    ELSE "ok"

\* max_length: Optional[int] = Field(500, ge=100, le=2000)
FieldMaxLength(p) ==
    IF "max_length" \notin DOMAIN p \/ p.max_length = NoneInt THEN "ok"
    ELSE IF p.max_length < MaxLengthGe THEN "greater_than_equal"
    ELSE IF p.max_length > MaxLengthLe THEN "less_than_equal"
    ELSE "ok"

\* the max_length entry of info.data when min_length is validated: present only
\* if max_length passed its own validation
LengthData(p) ==
    IF FieldMaxLength(p) # "ok" THEN <<>>
    ELSE [max_length |-> IF "max_length" \in DOMAIN p THEN p.max_length
                         ELSE MaxLengthDefault]

\* min_length: Optional[int] = Field(None, ge=50, le=1000), then the validator
FieldMinLength(p) ==
    IF "min_length" \notin DOMAIN p \/ p.min_length = NoneInt THEN "ok"
    ELSE IF p.min_length < MinLengthGe THEN "greater_than_equal"
    ELSE IF p.min_length > MinLengthLe THEN "less_than_equal"
    ELSE LET r == validate_length_range(p.min_length, LengthData(p))
         IN  IF r = "ValueError" THEN "value_error" ELSE r

\* an exception of a validator that pydantic does not turn into a validation
\* error leaves model validation at once; the fields are validated in the order
\* of their declaration
ValidationCrash(p) ==
    IF FieldTone(p) = "AttributeError" THEN "AttributeError"
    ELSE IF FieldMinLength(p) = "TypeError" THEN "TypeError"
    ELSE "<None>"

FieldError(loc, outcome) ==
    IF outcome = "ok" THEN {} ELSE {[loc |-> loc, type |-> outcome]}

\* a ValidationError that stops at the first field that failed
ValidationErrorsFirstOnly(p) ==
    IF FieldKeywords(p) # "ok" THEN FieldError("keywords", FieldKeywords(p))
    ELSE IF FieldGenre(p) # "ok" THEN FieldError("genre", FieldGenre(p))
    ELSE IF FieldTone(p) # "ok" THEN FieldError("tone", FieldTone(p))
    ELSE IF FieldMaxLength(p) # "ok" THEN FieldError("max_length", FieldMaxLength(p))
    ELSE FieldError("min_length", FieldMinLength(p))

\* the ValidationError of the model: one entry for each field that failed
ValidationErrors(p) ==
    FieldError("keywords", FieldKeywords(p))
    \cup FieldError("genre", FieldGenre(p))
    \cup FieldError("tone", FieldTone(p))
    \cup FieldError("max_length", FieldMaxLength(p))
    \cup FieldError("min_length", FieldMinLength(p))

\* the validated StoryGenerationRequest, given the order list(set(...)) produced
ValidatedRequest(p, keywords) ==
    [keywords   |-> keywords,
     genre      |-> p.genre,
     tone       |-> IF "tone" \in DOMAIN p THEN validate_tone(p.tone).returns ELSE neutral,
     max_length |-> IF "max_length" \in DOMAIN p THEN p.max_length ELSE MaxLengthDefault,
     min_length |-> IF "min_length" \in DOMAIN p THEN p.min_length ELSE NoneInt]

(***************************************************************************)
(* StoryGeneratorService (services/story_generator.py)                     *)
(***************************************************************************)
UntitledStory == <<"U","n","t","i","t","l","e","d"," ","S","t","o","r","y">>
TitleMarker == <<"T","i","t","l","e",":">>
titleMarker == <<"t","i","t","l","e",":">>

\* the parsing of full_response into title and content
ParseResponse(full_response) ==
    LET lines == SplitFirstNewline(Strip(full_response))
    IN  IF Len(lines) = 2
        THEN [title   |-> Strip(Remove(Remove(Strip(lines[1]), TitleMarker), titleMarker)),
              content |-> Strip(lines[2])]
        ELSE [title |-> UntitledStory, content |-> full_response]

\* the classes an exception type is an instance of
Mro(type) ==
    CASE type = "RateLimitError"      -> {"RateLimitError", "APIError", "Exception"}
      [] type = "InternalServerError" -> {"InternalServerError", "APIError", "Exception"}
      [] type = "StoryGenerationError" -> {"StoryGenerationError", "JiraiyaException", "Exception"}
      [] OTHER                        -> {type, "Exception"}

IsInstance(type, classes) == Mro(type) \cap classes # {}

\* a retry on every exception
RetryIfAnyException(type) == IsInstance(type, {"Exception"})

\* retry=retry_if_exception_type((RateLimitError, APIError))
RetryIfExceptionType(type) == IsInstance(type, {"RateLimitError", "APIError"})

StopAfterAttempt == 3
WaitMultiplier == 1
WaitMin == 4
WaitMax == 10

Max(a, b) == IF a >= b THEN a ELSE b
Min(a, b) == IF a <= b THEN a ELSE b

\* a stop one attempt early
stop_after_two(n) == n >= StopAfterAttempt - 1

\* stop=stop_after_attempt(3)
stop_after_attempt(n) == n >= StopAfterAttempt

\* an exponential wait without the floor of min
wait_exponential_unfloored(n) == Min(WaitMultiplier * 2 ^ (n - 1), WaitMax)

\* wait=wait_exponential(multiplier=1, min=4, max=10), after attempt n:
\* tenacity computes max(max(0, min), min(multiplier * 2 ** (n - 1), max))
wait_exponential(n) ==
    Max(Max(0, WaitMin), Min(WaitMultiplier * 2 ^ (n - 1), WaitMax))

\* one run of the body of _generate_with_ai on the answer of chain.ainvoke:
\* the response it returns, or the exception it raises
GenerateWithAiBody(req, resp) ==
    IF resp.raises = "<None>"
    THEN [raises  |-> NoError,
          returns |-> [title         |-> ParseResponse(resp.text).title,
                       content       |-> ParseResponse(resp.text).content,
                       keywords_used |-> req.keywords]]
    ELSE IF IsInstance(resp.raises, {"RateLimitError", "APIError"})
    THEN [raises |-> [type |-> resp.raises, detail |-> "<None>"], returns |-> NoStory]
    ELSE [raises  |-> [type |-> "StoryGenerationError", detail |-> resp.raises],
          returns |-> NoStory]

TaleOfThe == <<"T","h","e"," ","T","a","l","e"," ","o","f"," ","t","h","e"," ">>
JourneyToThe == <<"J","o","u","r","n","e","y"," ","t","o"," ","t","h","e"," ">>
OnceUponATime == <<"O","n","c","e"," ","u","p","o","n"," ","a"," ","t","i","m","e"," ","i","n"," ","a"," ">>
WorldThereWasA == <<" ","w","o","r","l","d",","," ","t","h","e","r","e"," ","w","a","s"," ","a"," ">>
ItWasA == <<"."," ","I","t"," ","w","a","s"," ","a"," ">>
DayThe == <<" ","d","a","y","."," ","T","h","e"," ">>
DecidedToGo == <<" ","d","e","c","i","d","e","d"," ","t","o"," ","g","o"," ","o","n"," ","a","n"," ","a","d","v","e","n","t","u","r","e","."," ","M","i","n"," ","l","e","n","g","t","h"," ","r","e","q","u","e","s","t","e","d"," ","w","a","s"," ">>
HappilyEverAfter == <<"."," ","A","n","d"," ","t","h","e","y"," ","l","i","v","e","d"," ","h","a","p","p","i","l","y"," ","e","v","e","r"," ","a","f","t","e","r",".">>
NoneText == <<"N","o","n","e">>

\* the two candidate titles of _generate_mock
MockTitles(req) ==
    {TaleOfThe \o Capitalize(req.genre), JourneyToThe \o Capitalize(req.keywords[1])}

\* mock_content of _generate_mock
MockContent(req) ==
    OnceUponATime \o req.genre \o WorldThereWasA \o req.keywords[1]
    \o ItWasA \o req.tone \o DayThe \o req.keywords[1] \o DecidedToGo
    \o (IF req.min_length = NoneInt THEN NoneText ELSE IntToStr(req.min_length))
    \o HappilyEverAfter

(***************************************************************************)
(* The inputs explored                                                     *)
(***************************************************************************)
MaxKeywordEntries == 3   \* entries of a keyword list chosen freely
MaxPadding == 8          \* copies of one entry appended to such a list
MaxPieces == 4           \* pieces an upstream text is put together from

fantasy == <<"f","a","n","t","a","s","y">>
ninja == <<"n","i","n","j","a">>
toad == <<"t","o","a","d">>

BasePayload == [keywords |-> <<ninja>>, genre |-> fantasy]

\* a payload with one more field, or with a field replaced
With(p, field, value) == (field :> value) @@ p

KeywordEntries ==
    {<<>>, <<" ">>, <<"o","x">>, <<" ","o","x"," ">>, <<"e","l","f">>, <<"o"," ","x">>}

KeywordLists ==
    {l \o Repeat(pad, n) :
        l \in UNION {[1..k -> KeywordEntries] : k \in 0..MaxKeywordEntries},
        pad \in {<<"\t">>, <<"o","x">>},
        n \in 0..MaxPadding}

\* every spelling of w in upper and lower case
AllCasings(w) ==
    {[i \in 1..Len(w) |-> IF i \in up THEN ToUpper(w[i]) ELSE w[i]] : up \in SUBSET (1..Len(w))}

ToneInputs ==
    UNION {AllCasings(t) : t \in valid_tones}
    \cup UNION {AllCasings(t) : t \in {<<"d","a","r","k","k">>, <<"d","a","r">>, <<"g","r","i","m">>}}
    \cup {<<>>, <<" ","d","a","r","k">>, <<"e","p","i","c","\n">>,
          <<"i","n","v","a","l","i","d","_","t","o","n","e","_","x","y","z">>,
          NoneStr}

MinLengthInputs == {NoneInt, 0, 49, 50, 51, 99, 100, 101, 499, 500, 501, 999, 1000, 1001}
MaxLengthInputs == {NoneInt, 50, 99, 100, 101, 499, 500, 501, 999, 1000, 1001, 1999, 2000, 2001, 5000}

GenreInputs == {Repeat("x", n) : n \in {0, 2, 3, 4, 49, 50, 51}} \cup {<<" "," "," ">>}

\* the payloads validation is explored on: each field varied over its inputs,
\* the two lengths varied together, and fields left out
ValidatorPayloads ==
    {With(BasePayload, "keywords", k) : k \in KeywordLists}
    \cup {With(BasePayload, "tone", t) : t \in ToneInputs}
    \cup {With(BasePayload, "genre", g) : g \in GenreInputs}
    \cup {With(BasePayload, "min_length", mn) : mn \in MinLengthInputs}
    \cup {With(BasePayload, "max_length", mx) : mx \in MaxLengthInputs}
    \cup {With(With(BasePayload, "min_length", mn), "max_length", mx) :
            mn \in MinLengthInputs, mx \in MaxLengthInputs}
    \cup {With(With(BasePayload, "min_length", mn), "max_length", mn + d) :
            mn \in MaxLengthGe..MinLengthLe, d \in {0 - 1, 0, 1}}
    \cup {With(With(With(BasePayload, "min_length", mn), "max_length", mx), "tone", t) :
            mn \in {49, 600}, mx \in {99, 500}, t \in {dark, <<"d","a","r">>}}
    \cup {With(With(With(BasePayload, "min_length", mn), "max_length", mx), "keywords", k) :
            mn \in {49, 600}, mx \in {99, 500}, k \in {<<>>, <<<<" ">>>>}}
    \cup {With(With(With(With(BasePayload, "min_length", mn), "max_length", mx), "tone", t),
                "keywords", k) :
            mn \in {49, 600, 1001}, mx \in {99, 500, 2001},
            t \in {dark, <<"d","a","r">>}, k \in {<<ninja>>, <<<<" ">>>>}}
    \cup {BasePayload, [genre |-> fantasy], [keywords |-> <<ninja>>]}

\* the payloads of the requests the service is explored on
RequestPayloads ==
    {BasePayload,
     With(With(BasePayload, "keywords", <<ninja, toad>>), "tone", humorous),
     With(With(With(BasePayload, "keywords", <<<<" ">> \o ninja, ninja, <<>>, toad>>),
               "tone", <<"D","a","r","k">>), "min_length", 50),
     With(With(BasePayload, "min_length", 100), "max_length", 100),
     With(With(BasePayload, "min_length", 1000), "max_length", 500),
     With(BasePayload, "tone", <<"i","n","v","a","l","i","d","_","t","o","n","e","_","x","y","z">>),
     With(BasePayload, "max_length", 5000),
     With(BasePayload, "keywords", <<>>),
     With(BasePayload, "tone", NoneStr)}

\* an answer of chain.ainvoke: the text returned, or the type of the exception raised
Returns(text) == [raises |-> "<None>", text |-> text]
Raises(type) == [raises |-> type, text |-> <<>>]

UpstreamErrors ==
    {"RateLimitError", "APIError", "InternalServerError", "ValueError", "TimeoutError"}

TitleFooBarBaz == <<"T","i","t","l","e",":"," ","F","o","o","\n","B","a","r"," ","b","a","z">>
JustOneLine == <<"J","u","s","t"," ","o","n","e"," ","l","i","n","e">>
MOCK_OPENAI_RESPONSE == <<"T","i","t","l","e",":"," ","T","e","s","t"," ","S","t","o","r","y","\n","O","n","c","e"," ","u","p","o","n"," ","a"," ","t","i","m","e"," ","i","n"," ","a"," ","t","e","s","t"," ","e","n","v","i","r","o","n","m","e","n","t",".",".",".">>

UpstreamTexts ==
    {<<>>, <<" ","\n"," ">>, TitleFooBarBaz, JustOneLine, MOCK_OPENAI_RESPONSE,
     TitleMarker \o <<"\n">> \o <<"B","a","r">>,
     <<"\n">> \o TitleFooBarBaz,
     <<"T","h","e"," ">> \o TitleMarker \o <<" ","F","o","o","\n","B","a","r">>}

UpstreamResponses ==
    {Raises(e) : e \in UpstreamErrors} \cup {Returns(t) : t \in UpstreamTexts}

Pieces == {TitleMarker, titleMarker, <<" ">>, <<"\n">>, <<"F","o","o">>, <<"B","a","r">>}

RECURSIVE Concat(_)
Concat(parts) == IF parts = <<>> THEN <<>> ELSE Head(parts) \o Concat(Tail(parts))

\* every text put together from at most MaxPieces pieces, and the examples
ParserTexts ==
    {Concat(ps) : ps \in UNION {[1..k -> Pieces] : k \in 0..MaxPieces}} \cup UpstreamTexts

(***************************************************************************)
(* Handling of one POST /generate request                                  *)
(***************************************************************************)
\* a constructor that builds the model client without a credential
ServiceInitAlways(openai) == "ChatOpenAI"

\* StoryGeneratorService.__init__: the model client when a credential is set
ServiceInit(openai) == IF openai THEN "ChatOpenAI" ELSE "<None>"

\* the state a request is received in, by a service constructed from the settings
Received(openai, key, h, p) ==
    /\ OPENAI_API_KEY = openai
    /\ API_KEY = key
    /\ llm = ServiceInit(openai)
    /\ header = h
    /\ payload = p
    /\ request = NoRequest
    /\ errors = {}
    /\ attempt_number = 1
    /\ invocations = 0
    /\ responses = <<>>
    /\ sleeps = <<>>
    /\ raised = NoError
    /\ story = NoStory
    /\ status = 0

Init ==
    /\ pc = "received"
    /\ \E openai \in BOOLEAN, key \in {NoKey, "test-secret"},
          h \in {NoKey, "test-secret", "wrong-secret", "TEST-SECRET"},
          p \in RequestPayloads :
            Received(openai, key, h, p)

\* verify_api_key that lets a request without the header through
verify_api_key_if_present(api_key) ==
    API_KEY # NoKey /\ api_key # NoKey /\ api_key # API_KEY

\* deps.verify_api_key: whether the request is refused
verify_api_key(api_key) == API_KEY # NoKey /\ api_key # API_KEY

VerifyApiKey ==
    /\ pc = "received"
    /\ IF verify_api_key(header)
       THEN pc' = "responded" /\ status' = 401
       ELSE pc' = "authorized" /\ status' = status
    /\ UNCHANGED <<OPENAI_API_KEY, API_KEY, llm, header, payload, request, errors,
                   attempt_number, invocations, responses, sleeps, raised, story>>

\* validation of the body as a StoryGenerationRequest
ValidateRequest ==
    /\ pc = "authorized"
    /\ IF ValidationCrash(payload) # "<None>"
       THEN /\ pc' = "responded"
            /\ status' = 500
            /\ raised' = [type |-> ValidationCrash(payload), detail |-> "<None>"]
            /\ UNCHANGED <<request, errors>>
       ELSE IF ValidationErrors(payload) # {}
       THEN /\ pc' = "responded"
            /\ status' = 422
            /\ errors' = ValidationErrors(payload)
            /\ UNCHANGED <<request, raised>>
       ELSE /\ \E keywords \in validate_keywords(payload.keywords).returns :
                 request' = ValidatedRequest(payload, keywords)
            /\ pc' = "validated"
            /\ UNCHANGED <<errors, raised, status>>
    /\ UNCHANGED <<OPENAI_API_KEY, API_KEY, llm, header, payload,
                   attempt_number, invocations, responses, sleeps, story>>

\* the status the router and the exception handlers of the app answer with
\* when generate_story raised an exception of this type
RouterStatus(type) ==
    IF IsInstance(type, {"JiraiyaException"})
    THEN IF IsInstance(type, {"StoryGenerationError"}) THEN 503 ELSE 500
    ELSE 500

\* generate_story: the model when there is one, the mock generator otherwise
GenerateStory ==
    /\ pc = "validated"
    /\ IF llm # "<None>"
       THEN /\ pc' = "call_ai"
            /\ UNCHANGED <<story, status>>
       ELSE /\ \E title \in MockTitles(request) :
                 story' = [title |-> title, content |-> MockContent(request),
                           keywords_used |-> request.keywords]
            /\ pc' = "responded"
            /\ status' = 200
    /\ UNCHANGED <<OPENAI_API_KEY, API_KEY, llm, header, payload, request, errors,
                   attempt_number, invocations, responses, sleeps, raised>>

\* one attempt of _generate_with_ai under the retry decorator
CallAI(answers) ==
    /\ pc = "call_ai"
    /\ \E resp \in answers :
        LET out == GenerateWithAiBody(request, resp)
        IN  /\ invocations' = invocations + 1
            /\ responses' = Append(responses, resp)
            /\ IF out.raises = NoError
               THEN /\ story' = out.returns
                    /\ pc' = "responded"
                    /\ status' = 200
                    /\ UNCHANGED <<raised, sleeps, attempt_number>>
               ELSE IF ~RetryIfExceptionType(out.raises.type)
               THEN /\ raised' = out.raises
                    /\ pc' = "responded"
                    /\ status' = RouterStatus(out.raises.type)
                    /\ UNCHANGED <<story, sleeps, attempt_number>>
               ELSE IF stop_after_attempt(attempt_number)
               THEN /\ raised' = [type |-> "RetryError", detail |-> out.raises.type]
                    /\ pc' = "responded"
                    /\ status' = RouterStatus("RetryError")
                    /\ UNCHANGED <<story, sleeps, attempt_number>>
               ELSE /\ sleeps' = Append(sleeps, wait_exponential(attempt_number))
                    /\ attempt_number' = attempt_number + 1
                    /\ pc' = "sleeping"
                    /\ UNCHANGED <<story, raised, status>>
    /\ UNCHANGED <<OPENAI_API_KEY, API_KEY, llm, header, payload, request, errors>>

\* the wait between two attempts is over
Wake ==
    /\ pc = "sleeping"
    /\ pc' = "call_ai"
    /\ UNCHANGED <<OPENAI_API_KEY, API_KEY, llm, header, payload, request, errors,
                   attempt_number, invocations, responses, sleeps, raised, story, status>>

CallUpstream == CallAI(UpstreamResponses)

Next == VerifyApiKey \/ ValidateRequest \/ GenerateStory \/ CallUpstream \/ Wake

Spec == Init /\ [][Next]_vars

(***************************************************************************)
(* Validation alone, over the validator payloads                           *)
(***************************************************************************)
InitValidate ==
    /\ pc = "authorized"
    /\ \E p \in ValidatorPayloads : Received(FALSE, NoKey, NoKey, p)

NextValidate == ValidateRequest

SpecValidate == InitValidate /\ [][NextValidate]_vars

(***************************************************************************)
(* The model call alone, over the parser texts                             *)
(***************************************************************************)
ParsedRequest == ValidatedRequest(BasePayload, <<ninja>>)

InitParse ==
    /\ pc = "call_ai"
    /\ OPENAI_API_KEY = TRUE
    /\ API_KEY = NoKey
    /\ llm = ServiceInit(TRUE)
    /\ header = NoKey
    /\ payload = BasePayload
    /\ request = ParsedRequest
    /\ errors = {}
    /\ attempt_number = 1
    /\ invocations = 0
    /\ responses = <<>>
    /\ sleeps = <<>>
    /\ raised = NoError
    /\ story = NoStory
    /\ status = 0

CallParsed == CallAI({Returns(t) : t \in ParserTexts})

NextParse == CallParsed

SpecParse == InitParse /\ [][NextParse]_vars

(***************************************************************************)
(* Concurrent requests on the one StoryGeneratorService of get_story_service*)
(* Every variable of a request is a function of the request here; the      *)
(* settings and the model client of the service are shared.                *)
(***************************************************************************)
NumRequests == 2

Requests == 1..NumRequests

\* the answers of chain.ainvoke explored with concurrent requests
ConcurrentResponses ==
    {Raises("RateLimitError"), Raises("InternalServerError"), Raises("ValueError"),
     Returns(TitleFooBarBaz), Returns(JustOneLine)}

\* the body of request r, already validated
PayloadOf(r) ==
    With(BasePayload, "keywords", <<IF r % 2 = 1 THEN ninja ELSE toad>>)

\* one attempt counter for all the calls in flight: the largest of them
attempt_number_shared(r) ==
    CHOOSE n \in {attempt_number[q] : q \in Requests} :
        \A q \in Requests : attempt_number[q] <= n

\* the attempt number the retry decorator consults for the call of request r:
\* each call of _generate_with_ai has a retry state of its own
attempt_number_of(r) == attempt_number[r]

InitConcurrent ==
    /\ OPENAI_API_KEY \in BOOLEAN
    /\ API_KEY = NoKey
    /\ llm = ServiceInit(OPENAI_API_KEY)
    /\ header = [r \in Requests |-> NoKey]
    /\ payload = [r \in Requests |-> PayloadOf(r)]
    /\ request = [r \in Requests |-> ValidatedRequest(PayloadOf(r), PayloadOf(r).keywords)]
    /\ errors = [r \in Requests |-> {}]
    /\ pc = [r \in Requests |-> "validated"]
    /\ attempt_number = [r \in Requests |-> 1]
    /\ invocations = [r \in Requests |-> 0]
    /\ responses = [r \in Requests |-> <<>>]
    /\ sleeps = [r \in Requests |-> <<>>]
    /\ raised = [r \in Requests |-> NoError]
    /\ story = [r \in Requests |-> NoStory]
    /\ status = [r \in Requests |-> 0]

\* generate_story for request r
GenerateStoryOf(r) ==
    /\ pc[r] = "validated"
    /\ IF llm # "<None>"
       THEN /\ pc' = [pc EXCEPT ![r] = "call_ai"]
            /\ UNCHANGED <<story, status>>
       ELSE /\ \E title \in MockTitles(request[r]) :
                 story' = [story EXCEPT ![r] =
                             [title |-> title, content |-> MockContent(request[r]),
                              keywords_used |-> request[r].keywords]]
            /\ pc' = [pc EXCEPT ![r] = "responded"]
            /\ status' = [status EXCEPT ![r] = 200]
    /\ UNCHANGED <<OPENAI_API_KEY, API_KEY, llm, header, payload, request, errors,
                   attempt_number, invocations, responses, sleeps, raised>>

\* one attempt of _generate_with_ai for request r under the retry decorator
CallAIOf(r, answers) ==
    /\ pc[r] = "call_ai"
    /\ \E resp \in answers :
        LET out == GenerateWithAiBody(request[r], resp)
        IN  /\ invocations' = [invocations EXCEPT ![r] = @ + 1]
            /\ responses' = [responses EXCEPT ![r] = Append(@, resp)]
            /\ IF out.raises = NoError
               THEN /\ story' = [story EXCEPT ![r] = out.returns]
                    /\ pc' = [pc EXCEPT ![r] = "responded"]
                    /\ status' = [status EXCEPT ![r] = 200]
                    /\ UNCHANGED <<raised, sleeps, attempt_number>>
               ELSE IF ~RetryIfExceptionType(out.raises.type)
               THEN /\ raised' = [raised EXCEPT ![r] = out.raises]
                    /\ pc' = [pc EXCEPT ![r] = "responded"]
                    /\ status' = [status EXCEPT ![r] = RouterStatus(out.raises.type)]
                    /\ UNCHANGED <<story, sleeps, attempt_number>>
               ELSE IF stop_after_attempt(attempt_number_of(r))
               THEN /\ raised' = [raised EXCEPT ![r] =
                                    [type |-> "RetryError", detail |-> out.raises.type]]
                    /\ pc' = [pc EXCEPT ![r] = "responded"]
                    /\ status' = [status EXCEPT ![r] = RouterStatus("RetryError")]
                    /\ UNCHANGED <<story, sleeps, attempt_number>>
               ELSE /\ sleeps' = [sleeps EXCEPT ![r] =
                                    Append(@, wait_exponential(attempt_number_of(r)))]
                    /\ attempt_number' = [attempt_number EXCEPT ![r] = @ + 1]
                    /\ pc' = [pc EXCEPT ![r] = "sleeping"]
                    /\ UNCHANGED <<story, raised, status>>
    /\ UNCHANGED <<OPENAI_API_KEY, API_KEY, llm, header, payload, request, errors>>

\* the wait of request r between two attempts is over
WakeOf(r) ==
    /\ pc[r] = "sleeping"
    /\ pc' = [pc EXCEPT ![r] = "call_ai"]
    /\ UNCHANGED <<OPENAI_API_KEY, API_KEY, llm, header, payload, request, errors,
                   attempt_number, invocations, responses, sleeps, raised, story, status>>

CallUpstreamOf(r) == CallAIOf(r, ConcurrentResponses)

NextConcurrent ==
    \E r \in Requests : GenerateStoryOf(r) \/ CallUpstreamOf(r) \/ WakeOf(r)

SpecConcurrent == InitConcurrent /\ [][NextConcurrent]_vars

(***************************************************************************)
(* Properties                                                              *)
(***************************************************************************)
\* a rate-limit or an upstream server error
TransientFailures == {"RateLimitError", "APIError", "InternalServerError"}

IsTransient(resp) == resp.raises \in TransientFailures
IsSuccess(resp) == resp.raises = "<None>"
IsOtherFailure(resp) == ~IsSuccess(resp) /\ ~IsTransient(resp)

\* C1: when the upstream call fails with a transient failure on 3 consecutive
\* attempts, generate_story fails with StoryGenerationError and with no other
\* error, and the backend was invoked no more than 3 times.
C1_ExhaustionRaisesStoryGenerationError ==
    (/\ pc = "responded"
     /\ Len(responses) = 3
     /\ \A i \in 1..3 : IsTransient(responses[i]))
    => (raised.type = "StoryGenerationError" /\ invocations <= 3)

\* C2: for k in {0, 1, 2}, after k consecutive transient failures a further
\* attempt is made, and when that attempt succeeds the backend has been invoked
\* exactly k+1 times and the request is answered with the result of the
\* successful invocation.
C2_RetryThenSuccess ==
    LET n == Len(responses)
    IN  (llm # "<None>" /\ \A i \in 1..(n - 1) : IsTransient(responses[i]))
        => /\ n <= 3
           /\ invocations = n
           /\ (n >= 1 /\ n < 3 /\ IsTransient(responses[n]))
                => (pc \in {"sleeping", "call_ai"} /\ status = 0)
           /\ (n >= 1 /\ IsSuccess(responses[n]))
                => /\ pc = "responded"
                   /\ status = 200
                   /\ raised = NoError
                   /\ story.title = ParseResponse(responses[n].text).title
                   /\ story.content = ParseResponse(responses[n].text).content
                   /\ story.keywords_used = request.keywords

C2_Witness ==
    /\ pc = "responded"
    /\ Len(responses) = 3
    /\ IsTransient(responses[1])
    /\ IsTransient(responses[2])
    /\ responses[3] = Returns(TitleFooBarBaz)
    /\ invocations = 3
    /\ story.content = <<"B","a","r"," ","b","a","z">>

C4_MockMode ==
    ~OPENAI_API_KEY
    => /\ pc \notin {"call_ai", "sleeping"}
       /\ invocations = 0
       /\ responses = <<>>
       /\ request # NoRequest
            => /\ raised = NoError
               /\ pc \in {"validated", "responded"}
               /\ pc = "responded"
                    => /\ status = 200
                       /\ story.title # <<>>
                       /\ \/ story.title = TaleOfThe \o Capitalize(request.genre)
                          \/ story.title = JourneyToThe \o Capitalize(request.keywords[1])
                       /\ story.content # <<>>
                       /\ Contains(story.content, request.keywords[1])
                       /\ story.keywords_used = request.keywords

C4_Witness ==
    /\ ~OPENAI_API_KEY
    /\ pc = "responded"
    /\ status = 200
    /\ request.keywords = <<toad, ninja>>
    /\ story.title = JourneyToThe \o <<"T","o","a","d">>
    /\ Contains(story.content, toad)

\* C5: with a service credential configured, a request whose X-API-Key header is
\* missing or differs from the credential is answered 401 and neither validated
\* nor generated for; a request with the matching header is never answered 401
\* and, its body being valid, is generated for; with no credential configured no
\* request is answered 401.
C5_ApiKey ==
    /\ (API_KEY # NoKey /\ header # API_KEY /\ pc # "received")
         => /\ pc = "responded"
            /\ status = 401
            /\ request = NoRequest
            /\ story = NoStory
            /\ invocations = 0
    /\ (API_KEY = NoKey \/ header = API_KEY)
         => /\ status # 401
            /\ (pc = "responded" /\ request # NoRequest)
                 => (story # NoStory \/ invocations >= 1)
            /\ (pc = "responded" /\ request = NoRequest)
                 => (status = 422 \/ raised # NoError)

C5_Witness ==
    /\ API_KEY = "test-secret"
    /\ header = NoKey
    /\ pc = "responded"
    /\ status = 401

\* C6: every StoryGenerationResponse returned, whatever text the upstream
\* answered, has a non-empty title and a non-empty content.
C6_StoryNeverEmpty ==
    (pc = "responded" /\ status = 200) => (story.title # <<>> /\ story.content # <<>>)

\* a keyword list with an entry that is not all whitespace
HasNonBlankEntry(v) ==
    \E i \in DOMAIN v : \E j \in DOMAIN v[i] : ~IsSpace(v[i][j])

\* no empty entry, no entry with surrounding whitespace, no duplicate, 1 to 10 entries
IsNormalized(ks) ==
    /\ Len(ks) >= 1
    /\ Len(ks) <= 10
    /\ \A i \in DOMAIN ks :
          /\ ks[i] # <<>>
          /\ ~IsSpace(ks[i][1])
          /\ ~IsSpace(ks[i][Len(ks[i])])
    /\ \A i, j \in DOMAIN ks : ks[i] = ks[j] => i = j

\* the request differs from the base request in its keywords only
OnlyKeywordsVary ==
    "keywords" \in DOMAIN payload /\ payload = With(BasePayload, "keywords", payload.keywords)

\* C7 as stated: every keyword sequence with a non-whitespace entry, whatever its
\* raw length, is accepted, and the normalized keywords have no empty entry, no
\* surrounding whitespace, no duplicate, and 1 to 10 entries.
C7_AnyRawLengthAccepted ==
    (pc # "authorized" /\ OnlyKeywordsVary /\ HasNonBlankEntry(payload.keywords))
    => (pc = "validated" /\ IsNormalized(request.keywords))

\* C7 amended: every keyword sequence of at most 10 raw entries with a
\* non-whitespace entry is accepted, and the normalized keywords are the stripped
\* non-blank entries, with no empty entry, no surrounding whitespace, no
\* duplicate, and 1 to 10 entries.
C7_UpToTenRawEntriesAccepted ==
    (/\ pc # "authorized"
     /\ OnlyKeywordsVary
     /\ HasNonBlankEntry(payload.keywords)
     /\ Len(payload.keywords) <= 10)
    => /\ pc = "validated"
       /\ IsNormalized(request.keywords)
       /\ \A i \in DOMAIN payload.keywords :
            HasNonBlankEntry(<<payload.keywords[i]>>)
            => \E j \in DOMAIN request.keywords :
                  Contains(payload.keywords[i], request.keywords[j])
                  /\ Len(request.keywords[j]) <= Len(payload.keywords[i])

C7_Witness ==
    /\ pc = "validated"
    /\ Len(payload.keywords) = 10
    /\ payload.keywords[1] = <<" ","o","x"," ">>
    /\ payload.keywords[2] = <<>>
    /\ payload.keywords[10] = <<"o","x">>
    /\ request.keywords = <<<<"o","x">>>>

\* the request differs from the base request in its lengths only, min_length
\* given within [50, 1000] and max_length within [100, 2000] or left out
LengthsWithinBounds ==
    /\ "min_length" \in DOMAIN payload
    /\ payload.min_length >= 50
    /\ payload.min_length <= 1000
    /\ \/ payload = With(BasePayload, "min_length", payload.min_length)
       \/ /\ "max_length" \in DOMAIN payload
          /\ payload.max_length >= 100
          /\ payload.max_length <= 2000
          /\ payload = With(With(BasePayload, "min_length", payload.min_length),
                            "max_length", payload.max_length)

\* max_length of the payload, 500 when left out
GivenMaxLength == IF "max_length" \in DOMAIN payload THEN payload.max_length ELSE 500

\* C9: with min_length in [50, 1000] and max_length in [100, 2000] (500 when
\* omitted), validation fails if min_length > max_length and succeeds otherwise;
\* every validated request with a min_length has min_length <= max_length.
C9_LengthRange ==
    /\ (pc # "authorized" /\ LengthsWithinBounds)
         => IF payload.min_length > GivenMaxLength
            THEN /\ pc = "responded"
                 /\ status = 422
                 /\ request = NoRequest
                 /\ \E e \in errors : e.loc = "min_length"
            ELSE /\ pc = "validated"
                 /\ request.min_length = payload.min_length
                 /\ request.max_length = GivenMaxLength
    /\ (pc = "validated" /\ request.min_length # NoneInt)
         => (request.max_length # NoneInt /\ request.min_length <= request.max_length)

C9_Witness ==
    /\ pc = "responded"
    /\ status = 422
    /\ LengthsWithinBounds
    /\ payload.min_length = 501
    /\ "max_length" \notin DOMAIN payload

\* s spells t with each letter in either case
IsSpellingOf(s, t) ==
    /\ Len(s) = Len(t)
    /\ \A i \in 1..Len(t) : s[i] = t[i] \/ (s[i] # t[i] /\ s[i] = ToUpper(t[i]))

\* the request differs from the base request in its tone only, a string
OnlyToneVaries ==
    /\ "tone" \in DOMAIN payload
    /\ payload.tone # NoneStr
    /\ payload = With(BasePayload, "tone", payload.tone)

\* C10: a tone whose lowercase form is not one of the seven tones is rejected;
\* every spelling of one of the seven tones in any letter case is accepted and
\* the validated request carries that tone in lowercase; an omitted tone yields
\* "neutral".
C10_Tone ==
    /\ (pc # "authorized" /\ OnlyToneVaries)
         => /\ Lower(payload.tone) \notin valid_tones
                 => /\ pc = "responded"
                    /\ status = 422
                    /\ request = NoRequest
                    /\ \E e \in errors : e.loc = "tone"
            /\ \A t \in {neutral, humorous, dark, epic, romantic, mysterious, dramatic} :
                 IsSpellingOf(payload.tone, t) => (pc = "validated" /\ request.tone = t)
    /\ (pc # "authorized" /\ payload = BasePayload)
         => (pc = "validated" /\ request.tone = neutral)

C10_Witness ==
    /\ pc = "validated"
    /\ OnlyToneVaries
    /\ payload.tone = <<"M","y","S","t","E","r","I","o","U","s">>
    /\ request.tone = mysterious

\* the title the parser is stated to give: of the first line, only a leading
\* "Title:" or "title:" and the surrounding whitespace are removed
LeadingMarkerStripped(line) ==
    LET a == Strip(line)
    IN  IF StartsWith(a, TitleMarker) \/ StartsWith(a, titleMarker)
        THEN Strip(SubSeq(a, Len(TitleMarker) + 1, Len(a)))
        ELSE a

\* the result the parser is stated to give for a raw text
StatedParse(raw) ==
    LET parts == SplitFirstNewline(raw)
    IN  IF Len(parts) = 2 /\ parts[1] # <<>> /\ parts[2] # <<>>
        THEN [title |-> LeadingMarkerStripped(parts[1]), content |-> Strip(parts[2])]
        ELSE [title |-> UntitledStory, content |-> raw]

\* C8: the parser splits the raw text on its first newline; with two non-empty
\* parts the title is the first part less a leading "Title:"/"title:" marker and
\* surrounding whitespace, any later occurrence of the marker kept, and the
\* content is the trimmed second part; otherwise the title is "Untitled Story"
\* and the content the raw text. Stated for the texts that neither begin nor end
\* with whitespace, on which trimming the whole text changes nothing.
C8_OnlyLeadingMarkerRemoved ==
    (/\ pc = "responded"
     /\ status = 200
     /\ Len(responses) = 1
     /\ Strip(responses[1].text) = responses[1].text)
    => /\ story.title = StatedParse(responses[1].text).title
       /\ story.content = StatedParse(responses[1].text).content

\* rule 1 is violated: no keyword is left after trimming
KeywordsViolated(p) ==
    "keywords" \in DOMAIN p /\ ~HasNonBlankEntry(p.keywords)

\* rule 2 is violated: the tone is no spelling of one of the seven tones
ToneViolated(p) ==
    /\ "tone" \in DOMAIN p
    /\ p.tone # NoneStr
    /\ ~\E t \in {neutral, humorous, dark, epic, romantic, mysterious, dramatic} :
          IsSpellingOf(p.tone, t)

\* rule 3 is violated by max_length: it lies outside [100, 2000]
MaxLengthViolated(p) ==
    /\ "max_length" \in DOMAIN p
    /\ p.max_length # NoneInt
    /\ (p.max_length < 100 \/ p.max_length > 2000)

\* rule 3 is violated by min_length: it lies outside [50, 1000]
MinLengthViolated(p) ==
    /\ "min_length" \in DOMAIN p
    /\ p.min_length # NoneInt
    /\ (p.min_length < 50 \/ p.min_length > 1000)

\* rule 4 is violated: min_length > max_length, max_length being 500 when omitted
RangeViolated(p) ==
    /\ "min_length" \in DOMAIN p
    /\ p.min_length # NoneInt
    /\ IF "max_length" \in DOMAIN p
       THEN p.max_length # NoneInt /\ p.min_length > p.max_length
       ELSE p.min_length > 500

\* the validation error has an entry of one of these types for the field
Reported(loc, types) == \E e \in errors : e.loc = loc /\ e.type \in types

\* the violations of rules 1 to 3 each appear in the validation error
FieldViolationsReported ==
    /\ KeywordsViolated(payload)
         => Reported("keywords", {"too_short", "too_long", "value_error"})
    /\ ToneViolated(payload) => Reported("tone", {"value_error"})
    /\ MaxLengthViolated(payload)
         => Reported("max_length", {"greater_than_equal", "less_than_equal"})
    /\ MinLengthViolated(payload)
         => Reported("min_length", {"greater_than_equal", "less_than_equal"})

\* C11 as stated: a validation error enumerates every violated constraint of
\* rules 1 to 4, among them min_length > max_length, whatever else is violated.
C11_EveryViolationReported ==
    (pc = "responded" /\ status = 422)
    => /\ FieldViolationsReported
       /\ RangeViolated(payload) => Reported("min_length", {"value_error"})

\* C11 amended: a validation error has an entry for every field that violates
\* its own rule (keywords, tone, the bounds of max_length, the bounds of
\* min_length), not only for the first; min_length > max_length is reported
\* when both lengths lie within their own bounds, and not otherwise.
C11_FieldViolationsReported ==
    (pc = "responded" /\ status = 422)
    => /\ FieldViolationsReported
       /\ (/\ RangeViolated(payload)
           /\ ~MaxLengthViolated(payload)
           /\ ~MinLengthViolated(payload))
            => Reported("min_length", {"value_error"})
       /\ (MaxLengthViolated(payload) \/ MinLengthViolated(payload))
            => ~Reported("min_length", {"value_error"})

C11_Witness ==
    /\ pc = "responded"
    /\ status = 422
    /\ KeywordsViolated(payload)
    /\ ToneViolated(payload)
    /\ MaxLengthViolated(payload)
    /\ MinLengthViolated(payload)
    /\ Cardinality(errors) = 4

clamp(x, lo, hi) == Max(lo, Min(x, hi))

\* the failed attempts a wait follows: the transient failures before the third
FailedBeforeThird ==
    {n \in 1..Len(responses) : n < 3 /\ IsTransient(responses[n])}

\* C12: the wait after failed attempt n, n in {1, 2}, is clamp(2^n, 4, 10)
\* seconds; every wait is at least 4 and at most 10 seconds, and no wait
\* follows the third failed attempt.
C12_Backoff ==
    /\ Len(sleeps) <= 2
    /\ Len(sleeps) = Cardinality(FailedBeforeThird)
    /\ \A n \in 1..Len(sleeps) :
          /\ IsTransient(responses[n])
          /\ sleeps[n] = clamp(2 ^ n, 4, 10)
          /\ sleeps[n] >= 4
          /\ sleeps[n] <= 10

C12_Witness ==
    /\ pc = "responded"
    /\ Len(responses) = 3
    /\ \A n \in 1..3 : IsTransient(responses[n])
    /\ raised.type = "RetryError"
    /\ sleeps = <<4, 4>>

\* what the upstream responses of request r alone determine: how many calls
\* were made, how many attempts are left, and how the request was answered
OwnOutcome(r) ==
    LET rs == responses[r]
        n  == Len(rs)
    IN  /\ n <= 3
        /\ invocations[r] = n
        /\ \A i \in 1..(n - 1) : IsTransient(rs[i])
        /\ attempt_number[r] = 1 + Cardinality({i \in 1..n : i < 3 /\ IsTransient(rs[i])})
        /\ sleeps[r] = [i \in 1..(attempt_number[r] - 1) |-> 4]
        /\ n = 0 =>
              \/ pc[r] \in {"validated", "call_ai"} /\ status[r] = 0
              \/ /\ llm = "<None>"
                 /\ pc[r] = "responded"
                 /\ status[r] = 200
                 /\ story[r].title \in MockTitles(request[r])
                 /\ story[r].keywords_used = request[r].keywords
        /\ (n >= 1 /\ n < 3 /\ IsTransient(rs[n])) =>
              /\ pc[r] \in {"sleeping", "call_ai"}
              /\ status[r] = 0
              /\ raised[r] = NoError
        /\ (n = 3 /\ IsTransient(rs[n])) =>
              /\ pc[r] = "responded"
              /\ raised[r] = [type |-> "RetryError", detail |-> rs[n].raises]
              /\ status[r] = 500
        /\ (n >= 1 /\ IsSuccess(rs[n])) =>
              /\ pc[r] = "responded"
              /\ status[r] = 200
              /\ raised[r] = NoError
              /\ story[r] = [title         |-> ParseResponse(rs[n].text).title,
                             content       |-> ParseResponse(rs[n].text).content,
                             keywords_used |-> request[r].keywords]
        /\ (n >= 1 /\ IsOtherFailure(rs[n])) =>
              /\ pc[r] = "responded"
              /\ raised[r] = [type |-> "StoryGenerationError", detail |-> rs[n].raises]
              /\ status[r] = 503

\* C13: in every interleaving of concurrent requests on the one service, the
\* backend selected at construction never changes, and the attempt counter and
\* the outcome of each request are those its own upstream responses determine:
\* the failures or the exhaustion of one request take no attempt from another
\* and do not change its result.
C13_RequestsIndependent ==
    /\ [](llm = ServiceInit(OPENAI_API_KEY) /\ \A r \in Requests : OwnOutcome(r))
    /\ [][llm' = llm]_vars

C13_Witness ==
    /\ pc[1] = "responded"
    /\ Len(responses[1]) = 3
    /\ raised[1].type = "RetryError"
    /\ pc[2] = "responded"
    /\ Len(responses[2]) = 3
    /\ IsTransient(responses[2][1])
    /\ IsTransient(responses[2][2])
    /\ responses[2][3] = Returns(TitleFooBarBaz)
    /\ invocations[2] = 3
    /\ status[2] = 200
    /\ story[2].keywords_used = <<toad>>

====
